---- MODULE Spec2Model ----
(***************************************************************************)
(* Wire framing of quinn-proto (src/quinn-proto/src/packet.rs): packet     *)
(* number truncation and expansion, header encoding, packet decoding and   *)
(* the payload length patch-up.                                            *)
(*                                                                         *)
(* Bytes are the integers 0..255 and a buffer is a sequence of bytes.      *)
(* u16, u32 and u64 values are little-endian sequences of 2, 4 and 8 bytes *)
(* ("limbs"), least significant first, so that 64-bit arithmetic keeps its *)
(* width; the wire order is big-endian, the reverse of a limb sequence.    *)
(***************************************************************************)
EXTENDS Integers, Sequences, FiniteSets, TLC

VARIABLES
    pn_op,        \* position of the packet number codec run
    pn_n,         \* full packet number handed to PacketNumber::new
    pn_acked,     \* largest_acked (sender) / prev (receiver)
    pn_enc,       \* the PacketNumber value (truncated number and its width)
    pn_out,       \* the result of PacketNumber::expand
    stage,        \* position of the packet builder
    hdr,          \* the Header being built
    buf,          \* the builder's buffer
    header_len,   \* length of the encoded header in buf
    sent,         \* the packets coalesced into the datagram, in order
    dgram,        \* the datagram handed to Packet::decode
    wire,         \* what happened to the datagram on the wire
    dest_id_len,  \* dest_id_len of the last Packet::decode call
    result,       \* result of Packet::decode on the datagram
    result2       \* result of Packet::decode on the remainder

pnvars == <<pn_op, pn_n, pn_acked, pn_enc, pn_out>>
pktvars == <<stage, hdr, buf, header_len, sent, dgram, wire, dest_id_len, result, result2>>
vars == <<pn_op, pn_n, pn_acked, pn_enc, pn_out,
          stage, hdr, buf, header_len, sent, dgram, wire, dest_id_len, result, result2>>

----------------------------------------------------------------------------
(* Fixed-width unsigned arithmetic on limb sequences.                      *)

Reverse(s) == [i \in 1..Len(s) |-> s[Len(s) + 1 - i]]

RECURSIVE ToLimbs(_, _)
\* the w low limbs of the natural number v
ToLimbs(v, w) == IF w = 0 THEN <<>> ELSE <<v % 256>> \o ToLimbs(v \div 256, w - 1)

RECURSIVE ToNat(_)
\* the value of a limb sequence (used only where it is known to be small)
ToNat(a) == IF a = <<>> THEN 0 ELSE a[1] + 256 * ToNat(Tail(a))

Zero(w) == [i \in 1..w |-> 0]

\* zero-extension (`x as u64`) and truncation (`n as u8`) to w limbs
Widen(a, w) == [i \in 1..w |-> IF i <= Len(a) THEN a[i] ELSE 0]
Truncate(a, w) == SubSeq(a, 1, w)

RECURSIVE AddC(_, _, _)
\* a + b + c over equal widths; the result has one more limb, the carry
AddC(a, b, c) ==
    IF a = <<>> THEN <<c>>
    ELSE LET s == a[1] + b[1] + c
         IN  <<s % 256>> \o AddC(Tail(a), Tail(b), s \div 256)

RECURSIVE SubB(_, _, _)
\* a - b - c over equal widths; the extra last limb is the borrow
SubB(a, b, c) ==
    IF a = <<>> THEN <<c>>
    ELSE LET s == a[1] - b[1] - c
         IN  <<s % 256>> \o SubB(Tail(a), Tail(b), IF s < 0 THEN 1 ELSE 0)

WrappingAdd(a, b) == SubSeq(AddC(a, b, 0), 1, Len(a))
AddOverflows(a, b) == AddC(a, b, 0)[Len(a) + 1] = 1
WrappingSub(a, b) == SubSeq(SubB(a, b, 0), 1, Len(a))
SubOverflows(a, b) == SubB(a, b, 0)[Len(a) + 1] = 1

RECURSIVE LtFrom(_, _, _)
LtFrom(a, b, i) ==
    IF i = 0 THEN FALSE
    ELSE IF a[i] # b[i] THEN a[i] < b[i]
    ELSE LtFrom(a, b, i - 1)

\* a < b, a <= b over equal widths
Lt(a, b) == LtFrom(a, b, Len(a))
Le(a, b) == ~Lt(b, a)

\* 1 << k in w limbs
Pow2(k, w) == [i \in 1..w |-> IF i = (k \div 8) + 1 THEN 2 ^ (k % 8) ELSE 0]

\* a / 2
Half(a) ==
    [i \in 1..Len(a) |->
        (a[i] \div 2) + (IF i < Len(a) THEN (a[i + 1] % 2) * 128 ELSE 0)]

\* a / (1 << bits) and the wrapping a * (1 << bits), bits a multiple of 8
ShrBits(a, bits) ==
    [i \in 1..Len(a) |->
        IF i + (bits \div 8) <= Len(a) THEN a[i + (bits \div 8)] ELSE 0]
ShlBits(a, bits) ==
    [i \in 1..Len(a) |-> IF i > (bits \div 8) THEN a[i - (bits \div 8)] ELSE 0]
ShlOverflows(a, bits) ==
    \E i \in 1..Len(a) : i + (bits \div 8) > Len(a) /\ a[i] # 0

RECURSIVE BitOr(_, _)
BitOr(a, b) ==
    IF a = 0 THEN b
    ELSE IF b = 0 THEN a
    ELSE (IF a % 2 = 1 \/ b % 2 = 1 THEN 1 ELSE 0) + 2 * BitOr(a \div 2, b \div 2)

RECURSIVE BitAnd(_, _)
BitAnd(a, b) ==
    IF a = 0 \/ b = 0 THEN 0
    ELSE (IF a % 2 = 1 /\ b % 2 = 1 THEN 1 ELSE 0) + 2 * BitAnd(a \div 2, b \div 2)

----------------------------------------------------------------------------
(* PacketNumber                                                            *)

U8(x) == [tag |-> "U8", x |-> x]
U16(x) == [tag |-> "U16", x |-> x]
U32(x) == [tag |-> "U32", x |-> x]
\* panic!() or an arithmetic overflow caught by a build with overflow checks
Panicked == [tag |-> "panic", x |-> <<>>]

\* PacketNumber::new; overflow_checks is the build profile (n - largest_acked
\* panics in a checked build and wraps in an unchecked one)
PacketNumber_new(n, largest_acked, overflow_checks) ==
    IF largest_acked = Zero(8) THEN U32(Truncate(n, 4))
    ELSE IF SubOverflows(n, largest_acked) /\ overflow_checks THEN Panicked
    ELSE LET range == Half(WrappingSub(n, largest_acked))
         IN  IF Lt(range, Pow2(8, 8)) THEN U8(Truncate(n, 1))
             ELSE IF Lt(range, Pow2(16, 8)) THEN U16(Truncate(n, 2))
             ELSE IF Lt(range, Pow2(32, 8)) THEN U32(Truncate(n, 4))
             ELSE Panicked

PacketNumber_ty(pn) ==
    CASE pn.tag = "U8" -> 0
      [] pn.tag = "U16" -> 1
      [] pn.tag = "U32" -> 2

\* PacketNumber::encode: the value in exactly its width, big-endian
PacketNumber_encode(pn) == Reverse(pn.x)

\* the width in bits of a PacketNumber: d = 1 << Bits(pn)
Bits(pn) ==
    CASE pn.tag = "U8" -> 8
      [] pn.tag = "U16" -> 16
      [] pn.tag = "U32" -> 32

\* the else branch of expand (packet.rs:113), x % d
ExpandLow(x, bits) == WrappingSub(x, ShlBits(ShrBits(x, bits), bits))

\* t + d / 2 - x (packet.rs:111), with its borrow; the faulty variant
\* forgets the half window
ExpandNumeratorNoHalf(t, d, x) == SubB(t, x, 0)
ExpandNumerator(t, d, x) == SubB(WrappingAdd(t, Half(d)), x, 0)

\* PacketNumber::expand: [panic, v]; panic is an overflow in a checked build
PacketNumber_expand(pn, prev, overflow_checks) ==
    LET one == ToLimbs(1, 8)
        t == WrappingAdd(prev, one)
        d == Pow2(Bits(pn), 8)
        x == Widen(pn.x, 8)
        num == ExpandNumerator(t, d, x)
        q == ShrBits(SubSeq(num, 1, 8), Bits(pn))
        prod == ShlBits(q, Bits(pn))
        ovf == IF Lt(Half(d), t)
               THEN \/ AddOverflows(prev, one)
                    \/ AddOverflows(t, Half(d))
                    \/ num[9] = 1
                    \/ ShlOverflows(q, Bits(pn))
                    \/ AddOverflows(x, prod)
               ELSE AddOverflows(prev, one)
    IN  IF ovf /\ overflow_checks THEN [panic |-> TRUE, v |-> Zero(8)]
        ELSE IF Lt(Half(d), t) THEN [panic |-> FALSE, v |-> WrappingAdd(x, prod)]
        ELSE [panic |-> FALSE, v |-> ExpandLow(x, Bits(pn))]

----------------------------------------------------------------------------
(* Header, ConnectionId, Packet                                            *)

MAX_CID_SIZE == 18
\* the protocol version, a nonzero u32 defined in lib.rs (0xff00000b)
VERSION == <<11, 0, 0, 255>>
KEY_PHASE_BIT == 64
AEAD_TAG_SIZE == 16
INITIAL == 127
RETRY == 126
HANDSHAKE == 125

NoPacketNumber == [tag |-> "none", x |-> <<>>]

Long(ty, source_id, destination_id, number) ==
    [kind |-> "Long", ty |-> ty, source_id |-> source_id,
     destination_id |-> destination_id,
     number |-> [tag |-> "u32", x |-> number], key_phase |-> FALSE]

\* Header::destination_id() is the id of a Short header, Header::key_phase()
\* is false for the other variants: the record keeps both under those names
Short(id, number, key_phase) ==
    [kind |-> "Short", ty |-> 0, source_id |-> <<>>, destination_id |-> id,
     number |-> number, key_phase |-> key_phase]

VersionNegotiate(ty, source_id, destination_id) ==
    [kind |-> "VersionNegotiate", ty |-> ty, source_id |-> source_id,
     destination_id |-> destination_id,
     number |-> NoPacketNumber, key_phase |-> FALSE]

NoHeader ==
    [kind |-> "none", ty |-> 0, source_id |-> <<>>, destination_id |-> <<>>,
     number |-> NoPacketNumber, key_phase |-> FALSE]

\* ConnectionId::new(data, len): the array truncated to len
ConnectionId_new(data, len) == SubSeq(data, 1, IF len < Len(data) THEN len ELSE Len(data))

\* the 4-bit length code Header::encode computes from an id's length
\* (packet.rs:132-139), as the wrapping u8 subtraction leaves it
CilEncode(len) == IF len > 0 THEN (len - 3) % 256 ELSE 0
CilEncodeOverflows(len) == len > 0 /\ len < 3

\* dcil << 4 | scil as a u8 (packet.rs:140)
CilByte(dcil, scil) == BitOr((dcil * 16) % 256, scil)

\* Header::encode: [panic, bytes]; panic is the u8 underflow of `dcil -= 3`
\* in a build with overflow checks
Header_encode(h, overflow_checks) ==
    LET cil == CilByte(CilEncode(Len(h.destination_id)), CilEncode(Len(h.source_id)))
        underflow == \/ CilEncodeOverflows(Len(h.destination_id))
                     \/ CilEncodeOverflows(Len(h.source_id))
    IN  CASE h.kind = "Long" ->
                IF underflow /\ overflow_checks THEN [panic |-> TRUE, bytes |-> <<>>]
                ELSE [panic |-> FALSE,
                      bytes |-> <<BitOr(128, h.ty)>> \o Reverse(VERSION) \o <<cil>>
                                \o h.destination_id \o h.source_id
                                \o Reverse(ToLimbs(0, 2)) \o Reverse(h.number.x)]
          [] h.kind = "Short" ->
                [panic |-> FALSE,
                 bytes |-> <<BitOr(BitOr(PacketNumber_ty(h.number), 48),
                                   IF h.key_phase THEN KEY_PHASE_BIT ELSE 0)>>
                           \o h.destination_id \o PacketNumber_encode(h.number)]
          [] h.kind = "VersionNegotiate" ->
                IF underflow /\ overflow_checks THEN [panic |-> TRUE, bytes |-> <<>>]
                ELSE [panic |-> FALSE,
                      bytes |-> <<BitOr(128, h.ty)>> \o Reverse(ToLimbs(0, 4)) \o <<cil>>
                                \o h.destination_id \o h.source_id]

\* the length field set_payload_length writes: len as u16 | 0b01 << 14,
\* big-endian; the faulty variant leaves the class bits out
LengthFieldNoClass(len) == Reverse(ToLimbs(len % 65536, 2))
LengthField(len) == Reverse(ToLimbs(BitOr(len % 65536, 16384), 2))

\* set_payload_length(packet, header_len): [panic, bytes]
set_payload_length(packet, hlen) ==
    LET len == Len(packet) - hlen + AEAD_TAG_SIZE
    IN  IF Len(packet) < hlen \/ hlen < 6 \/ ~(len < 2 ^ 14)
        THEN [panic |-> TRUE, bytes |-> packet]
        ELSE [panic |-> FALSE,
              bytes |-> [i \in 1..Len(packet) |->
                            IF i = hlen - 5 THEN LengthField(len)[1]
                            ELSE IF i = hlen - 4 THEN LengthField(len)[2]
                            ELSE packet[i]]]

\* the AEAD sealer (external): the payload after the header is replaced by a
\* ciphertext of the same length and the tag is appended
Seal(packet, hlen) ==
    [i \in 1..(Len(packet) + AEAD_TAG_SIZE) |->
        IF i <= hlen THEN packet[i]
        ELSE IF i <= Len(packet) THEN 255 - packet[i]
        ELSE 160 + (i - Len(packet))]

\* the result of Packet::decode
Ok(header, header_data, payload, rest, len) ==
    [status |-> "Ok", reason |-> "", header |-> header, header_data |-> header_data,
     payload |-> payload, rest |-> rest, source |-> <<>>, destination |-> <<>>,
     len |-> len]
InvalidHeader(reason) ==
    [status |-> "InvalidHeader", reason |-> reason, header |-> NoHeader,
     header_data |-> <<>>, payload |-> <<>>, rest |-> <<>>, source |-> <<>>,
     destination |-> <<>>, len |-> 0]
UnsupportedVersion(source, destination) ==
    [status |-> "UnsupportedVersion", reason |-> "", header |-> NoHeader,
     header_data |-> <<>>, payload |-> <<>>, rest |-> <<>>, source |-> source,
     destination |-> destination, len |-> 0]
NotDecoded ==
    [status |-> "none", reason |-> "", header |-> NoHeader,
     header_data |-> <<>>, payload |-> <<>>, rest |-> <<>>, source |-> <<>>,
     destination |-> <<>>, len |-> 0]

\* From<coding::UnexpectedEnd> for HeaderError
UnexpectedEnd == InvalidHeader("unexpected end of packet")

\* BytesMut::split_to(at): the first `at` bytes, and what stays behind; the
\* faulty variant leaves the last byte split off in the buffer as well
SplitToKeeping(b, at) ==
    [head |-> SubSeq(b, 1, at),
     tail |-> IF at = 0 THEN b ELSE SubSeq(b, at, Len(b))]
SplitTo(b, at) == [head |-> SubSeq(b, 1, at), tail |-> SubSeq(b, at + 1, Len(b))]

\* packet.rs:296-305: header_data, payload and the remainder
SplitPacket(packet, hlen, payload_len, header, len) ==
    LET h == SplitTo(packet, hlen)
        p == SplitTo(h.tail, payload_len)
    IN  Ok(header, h.head, p.head, p.tail, len)

\* the length an id has for a 4-bit code (packet.rs:216-223); the faulty
\* variant adds 4
CilDecodeOff(code) == IF code > 0 THEN code + 4 ELSE 0
CilDecode(code) == IF code > 0 THEN code + 3 ELSE 0

\* buf.copy_to_slice(&mut cid_stage[0..len]) with the cursor at pos
CopyToSlice(cid_stage, packet, pos, len) ==
    [i \in 1..Len(cid_stage) |-> IF i <= len THEN packet[pos + i] ELSE cid_stage[i]]

\* BufExt::get_var at pos: a variable-length integer whose first two bits
\* give its size 1, 2, 4 or 8; [ok, v, pos]
get_var(packet, pos) ==
    IF Len(packet) - pos < 1 THEN [ok |-> FALSE, v |-> Zero(8), pos |-> pos]
    ELSE LET size == 2 ^ (packet[pos + 1] \div 64)
         IN  IF Len(packet) - pos < size THEN [ok |-> FALSE, v |-> Zero(8), pos |-> pos]
             ELSE [ok |-> TRUE,
                   v |-> Widen(Reverse(<<packet[pos + 1] % 64>>
                                       \o SubSeq(packet, pos + 2, pos + size)), 8),
                   pos |-> pos + size]

\* the match on the version (packet.rs:233-266); the faulty variant takes
\* every version other than VERSION for a negotiation
VersionArmLax(version) == IF version = VERSION THEN "VERSION" ELSE "0"
VersionArm(version) ==
    IF version = Zero(4) THEN "0"
    ELSE IF version = VERSION THEN "VERSION"
    ELSE "_"

\* payload_len of a long header, `len as usize` (packet.rs:252); the faulty
\* variant takes the rest of the datagram, as the other header variants do
LongPayloadLenRest(packet, hlen, len) == Len(packet) - hlen
LongPayloadLen(packet, hlen, len) == ToNat(len)

\* Packet::decode, the long branch (packet.rs:214-267), cursor after the
\* first byte
DecodeLong(packet, ty) ==
    IF Len(packet) - 1 < 4 THEN UnexpectedEnd
    ELSE IF Len(packet) - 5 < 1 THEN UnexpectedEnd
    ELSE
      LET version == Reverse(SubSeq(packet, 2, 5))
          ci_lengths == packet[6]
          dcil == CilDecode(ci_lengths \div 16)
          scil == CilDecode(BitAnd(ci_lengths, 15))
      IN  IF Len(packet) - 6 < dcil + scil
          THEN InvalidHeader("connection IDs longer than packet")
          ELSE
            LET stage1 == CopyToSlice(Zero(MAX_CID_SIZE), packet, 6, dcil)
                destination_id == ConnectionId_new(stage1, dcil)
                stage2 == CopyToSlice(stage1, packet, 6 + dcil, scil)
                source_id == ConnectionId_new(stage2, scil)
                pos == 6 + dcil + scil
            IN  CASE VersionArm(version) = "0" ->
                        SplitPacket(packet, pos, Len(packet) - pos,
                                    VersionNegotiate(ty, source_id, destination_id), 0)
                  [] VersionArm(version) = "VERSION" ->
                        LET len == get_var(packet, pos)
                        IN  IF ~len.ok THEN UnexpectedEnd
                            ELSE IF Len(packet) - len.pos < 4 THEN UnexpectedEnd
                            ELSE
                              LET number == Reverse(SubSeq(packet, len.pos + 1, len.pos + 4))
                                  hlen == len.pos + 4
                              IN  IF Lt(Widen(ToLimbs(Len(packet), 8), 9),
                                        AddC(ToLimbs(hlen, 8), len.v, 0))
                                  THEN InvalidHeader("payload longer than packet")
                                  ELSE SplitPacket(packet, hlen,
                                                   LongPayloadLen(packet, hlen, len.v),
                                                   Long(ty, source_id, destination_id, number),
                                                   ToNat(len.v))
                  [] OTHER -> UnsupportedVersion(source_id, destination_id)

\* Packet::decode, the short branch (packet.rs:269-293)
DecodeShort(packet, ty, dl) ==
    IF Len(packet) - 1 < dl
    THEN InvalidHeader("destination connection ID longer than packet")
    ELSE
      LET id == ConnectionId_new(CopyToSlice(Zero(MAX_CID_SIZE), packet, 1, dl), dl)
          key_phase == BitAnd(ty, KEY_PHASE_BIT) # 0
          code == BitAnd(ty, 3)
          w == 2 ^ code
          pos == 1 + dl
      IN  IF code = 3 THEN InvalidHeader("unknown packet type")
          ELSE IF Len(packet) - pos < w THEN UnexpectedEnd
          ELSE
            LET x == Reverse(SubSeq(packet, pos + 1, pos + w))
                number == CASE code = 0 -> U8(x) [] code = 1 -> U16(x) [] code = 2 -> U32(x)
            IN  SplitPacket(packet, pos + w, Len(packet) - (pos + w),
                            Short(id, number, key_phase), 0)

\* Packet::decode(packet, dest_id_len)
Packet_decode(packet, dl) ==
    IF Len(packet) < 1 THEN UnexpectedEnd
    ELSE IF BitAnd(packet[1], 128) # 0
         THEN DecodeLong(packet, BitAnd(packet[1], 127))
         ELSE DecodeShort(packet, BitAnd(packet[1], 127), dl)

----------------------------------------------------------------------------
(* The packet number codec as a state machine: a sender truncates n        *)
(* against largest_acked, a receiver expands a truncated number against    *)
(* prev.                                                                   *)

\* packet numbers are a 62-bit counter: the inputs stay below 1 << 62
MaxGap == 520
MaxOffset == 3

\* v as a u64, and hi * 2^32 + lo as a u64
Nat64(v) == ToLimbs(v, 8)
Pair64(hi, lo) == ToLimbs(lo, 4) \o ToLimbs(hi, 4)

AckedSamples == {Nat64(1), Nat64(200), Nat64(70000), Pair64(5, 17)}

\* distances n - largest_acked within a realistic window: every small one,
\* and the ones around the width thresholds 2^9 and 2^17
GapSamples == {Nat64(g) : g \in 0..MaxGap} \cup {Nat64(131071), Nat64(131072)}

PrevBases ==
    {Nat64(0), Nat64(126), Nat64(254), Nat64(32766), Nat64(65534),
     Nat64(2147483646), <<254, 255, 255, 255, 0, 0, 0, 0>>, Pair64(1, 2147483646),
     Pair64(1073741823, 2147483000)}

PrevSamples == {WrappingAdd(b, Nat64(o)) : b \in PrevBases, o \in 0..MaxOffset}

TruncatedSamples ==
    {U8(<<x>>) : x \in {0, 1, 127, 128, 129, 255}}
        \cup {U16(ToLimbs(x, 2)) : x \in {0, 1, 300, 32767, 32768, 65535}}
        \cup {U32(x) : x \in {ToLimbs(0, 4), ToLimbs(1, 4), ToLimbs(2147483647, 4),
                              <<0, 0, 0, 128>>, <<1, 0, 0, 128>>, <<255, 255, 255, 255>>}}

NoNumber == <<>>
NoExpansion == [panic |-> FALSE, v |-> <<>>]

\* the sender calls PacketNumber::new(n, largest_acked) with n at some
\* distance above a largest_acked other than 0
New(ackeds, gaps) ==
    /\ pn_op = "idle"
    /\ \E largest_acked \in ackeds, g \in gaps, overflow_checks \in BOOLEAN :
          /\ pn_n' = WrappingAdd(largest_acked, g)
          /\ pn_acked' = largest_acked
          /\ pn_enc' = PacketNumber_new(WrappingAdd(largest_acked, g), largest_acked,
                                        overflow_checks)
    /\ pn_op' = "new"
    /\ pn_out' = NoExpansion
    /\ UNCHANGED pktvars

\* the sender calls PacketNumber::new(n, 0): nothing was acknowledged yet
NewUnacked(gaps) ==
    /\ pn_op = "idle"
    /\ \E n \in gaps, overflow_checks \in BOOLEAN :
          /\ pn_n' = n
          /\ pn_enc' = PacketNumber_new(n, Nat64(0), overflow_checks)
    /\ pn_acked' = Nat64(0)
    /\ pn_op' = "new"
    /\ pn_out' = NoExpansion
    /\ UNCHANGED pktvars

\* the caller breaks the precondition: n is below largest_acked
NewBelow(ackeds) ==
    /\ pn_op = "idle"
    /\ \E largest_acked \in ackeds, overflow_checks \in BOOLEAN :
          /\ pn_n' = WrappingSub(largest_acked, Nat64(1))
          /\ pn_acked' = largest_acked
          /\ pn_enc' = PacketNumber_new(WrappingSub(largest_acked, Nat64(1)),
                                        largest_acked, overflow_checks)
    /\ pn_op' = "new"
    /\ pn_out' = NoExpansion
    /\ UNCHANGED pktvars

\* a truncated number arrives at a receiver whose reference point is prev
Receive(pns, prevs) ==
    /\ pn_op = "idle"
    /\ \E pn \in pns, prev \in prevs :
          /\ pn_acked' = prev
          /\ pn_enc' = pn
    /\ pn_op' = "received"
    /\ pn_n' = NoNumber
    /\ pn_out' = NoExpansion
    /\ UNCHANGED pktvars

\* PacketNumber::expand(prev) on the current value
Expand ==
    /\ pn_op \in {"new", "received"}
    /\ pn_enc # Panicked
    /\ \E overflow_checks \in BOOLEAN :
          pn_out' = PacketNumber_expand(pn_enc, pn_acked, overflow_checks)
    /\ pn_op' = "expanded"
    /\ UNCHANGED <<pn_n, pn_acked, pn_enc>>
    /\ UNCHANGED pktvars

----------------------------------------------------------------------------
(* Building, sending and decoding packets as a state machine.              *)

MaxPayload == 1
LargePayload == 250

\* a connection id of the given length; destination and source ids differ
\* in every byte
Cid(len, seed) == [i \in 1..len |-> seed + i]
DestinationIds(lens) == {Cid(l, 208) : l \in lens}
SourceIds(lens) == {Cid(l, 16) : l \in lens}

HeaderNumbers == {<<4, 3, 2, 1>>}
ShortNumbers == {U8(<<44>>), U16(ToLimbs(300, 2)), U32(<<4, 3, 2, 129>>)}

LongHeaders(lens, tys, numbers) ==
    {Long(ty, s, d, n) : ty \in tys, s \in SourceIds(lens),
                         d \in DestinationIds(lens), n \in numbers}
ShortHeaders(lens, numbers) ==
    {Short(d, n, k) : d \in DestinationIds(lens), n \in numbers, k \in BOOLEAN}
NegotiateHeaders(lens, tys) ==
    {VersionNegotiate(ty, s, d) : ty \in tys, s \in SourceIds(lens),
                                  d \in DestinationIds(lens)}

\* the lengths the round-trip tests use, and every length ConnectionId holds
TestLens == {0, 4, 18}
AllLens == 0..MAX_CID_SIZE

Payload(len) == [i \in 1..len |-> (47 + i) % 256]
Payloads == {Payload(l) : l \in (0..MaxPayload) \cup {LargePayload}}
SmallPayloads == {Payload(l) : l \in 0..MaxPayload}

IntactWire == [reversioned |-> FALSE, reframed |-> FALSE, truncated |-> FALSE]

\* nothing has been built, sent, decoded, truncated or expanded yet
Init ==
    /\ pn_op = "idle"
    /\ pn_n = NoNumber
    /\ pn_acked = Nat64(0)
    /\ pn_enc = Panicked
    /\ pn_out = NoExpansion
    /\ stage = "idle"
    /\ hdr = NoHeader
    /\ buf = <<>>
    /\ header_len = 0
    /\ sent = <<>>
    /\ dgram = <<>>
    /\ wire = IntactWire
    /\ dest_id_len = <<>>
    /\ result = NotDecoded
    /\ result2 = NotDecoded

\* a new datagram is started
Reset ==
    /\ stage = "idle"
    /\ sent # <<>>
    /\ sent' = <<>>
    /\ dgram' = <<>>
    /\ wire' = IntactWire
    /\ dest_id_len' = <<>>
    /\ result' = NotDecoded
    /\ result2' = NotDecoded
    /\ UNCHANGED <<hdr, buf, header_len>>
    /\ UNCHANGED pnvars
    /\ stage' = "idle"

\* Header::encode(h) into an empty buffer
Encode(headers, room) ==
    /\ stage = "idle"
    /\ Len(sent) < room
    /\ result = NotDecoded /\ wire = IntactWire
    /\ \E h \in headers, overflow_checks \in BOOLEAN :
          LET e == Header_encode(h, overflow_checks)
          IN  /\ stage' = IF e.panic THEN "panicked" ELSE "encoded"
              /\ buf' = e.bytes
              /\ header_len' = Len(e.bytes)
              /\ hdr' = h
    /\ UNCHANGED <<sent, dgram, wire, dest_id_len, result, result2>>
    /\ UNCHANGED pnvars

\* the payload to seal is appended after the header
AppendPayload(payloads) ==
    /\ stage = "encoded"
    /\ \E p \in payloads : buf' = buf \o p
    /\ stage' = "filled"
    /\ UNCHANGED <<hdr, header_len, sent, dgram, wire, dest_id_len, result, result2>>
    /\ UNCHANGED pnvars

\* set_payload_length(buf, header_len), before or after the sealing
SetPayloadLength ==
    /\ stage \in {"filled", "sealed"}
    /\ hdr.kind = "Long"
    /\ LET r == set_payload_length(buf, header_len)
       IN  /\ buf' = r.bytes
           /\ stage' = IF r.panic THEN "panicked"
                       ELSE IF stage = "filled" THEN "patched" ELSE "sealed_patched"
    /\ UNCHANGED <<hdr, header_len, sent, dgram, wire, dest_id_len, result, result2>>
    /\ UNCHANGED pnvars

\* the AEAD sealer seals the payload in place
SealPayload ==
    /\ stage \in {"filled", "patched"}
    /\ hdr.kind \in {"Long", "Short"}
    /\ buf' = Seal(buf, header_len)
    /\ stage' = IF stage = "filled" THEN "sealed" ELSE "patched_sealed"
    /\ UNCHANGED <<hdr, header_len, sent, dgram, wire, dest_id_len, result, result2>>
    /\ UNCHANGED pnvars

\* the buffer is added to the datagram, which holds at most `room` packets
Send(room) ==
    /\ stage \in {"encoded", "filled", "patched", "sealed", "patched_sealed", "sealed_patched"}
    /\ Len(sent) < room
    /\ sent' = Append(sent, [hdr |-> hdr, bytes |-> buf, header_len |-> header_len,
                             built |-> stage])
    /\ dgram' = dgram \o buf
    /\ stage' = "idle"
    /\ hdr' = NoHeader
    /\ buf' = <<>>
    /\ header_len' = 0
    /\ UNCHANGED <<wire, dest_id_len, result, result2>>
    /\ UNCHANGED pnvars

\* a builder that panicked is abandoned
Abandon ==
    /\ stage = "panicked"
    /\ stage' = "idle"
    /\ hdr' = NoHeader
    /\ buf' = <<>>
    /\ header_len' = 0
    /\ UNCHANGED <<sent, dgram, wire, dest_id_len, result, result2>>
    /\ UNCHANGED pnvars

\* the datagram arrives cut to its first k bytes
Cut(most) ==
    /\ stage = "idle" /\ Len(sent) = 1 /\ result = NotDecoded
    /\ ~wire.truncated
    /\ \E k \in 0..most : k < Len(dgram) /\ dgram' = SubSeq(dgram, 1, k)
    /\ wire' = [wire EXCEPT !.truncated = TRUE]
    /\ UNCHANGED <<stage, hdr, buf, header_len, sent, dest_id_len, result, result2>>
    /\ UNCHANGED pnvars

\* a long header arrives with another value in its version field
SetVersion(versions) ==
    /\ stage = "idle" /\ Len(sent) = 1 /\ result = NotDecoded
    /\ wire = IntactWire
    /\ sent[1].hdr.kind \in {"Long", "VersionNegotiate"}
    /\ \E v \in versions :
          dgram' = [i \in 1..Len(dgram) |->
                       IF i \in 2..5 THEN Reverse(v)[i - 1] ELSE dgram[i]]
    /\ wire' = [wire EXCEPT !.reversioned = TRUE]
    /\ UNCHANGED <<stage, hdr, buf, header_len, sent, dest_id_len, result, result2>>
    /\ UNCHANGED pnvars

\* the variable-length integer v in `size` bytes (size 1, 2, 4 or 8)
VarInt(v, size) ==
    LET be == Reverse(ToLimbs(v, size))
        class == CASE size = 1 -> 0 [] size = 2 -> 64 [] size = 4 -> 128 [] size = 8 -> 192
    IN  [i \in 1..size |-> IF i = 1 THEN be[1] + class ELSE be[i]]

\* a peer sends the same first long packet with its length field in another size
\* of the variable-length integer encoding
Reframe(sizes) ==
    /\ stage = "idle" /\ sent # <<>> /\ result = NotDecoded
    /\ wire = IntactWire
    /\ sent[1].built = "patched_sealed"
    /\ \E size \in sizes :
       LET hl == sent[1].header_len
           len == Len(sent[1].bytes) - hl
       IN  /\ size = 1 => len < 64
           /\ dgram' = SubSeq(dgram, 1, hl - 6) \o VarInt(len, size)
                       \o SubSeq(dgram, hl - 3, Len(dgram))
    /\ wire' = [wire EXCEPT !.reframed = TRUE]
    /\ UNCHANGED <<stage, hdr, buf, header_len, sent, dest_id_len, result, result2>>
    /\ UNCHANGED pnvars

\* Packet::decode(dgram, dl)
Decode(lens) ==
    /\ stage = "idle" /\ sent # <<>> /\ result = NotDecoded
    /\ \E dl \in lens :
          /\ result' = Packet_decode(dgram, dl)
          /\ dest_id_len' = <<dl>>
    /\ UNCHANGED <<stage, hdr, buf, header_len, sent, dgram, wire, result2>>
    /\ UNCHANGED pnvars

\* the caller loops Packet::decode over the remainder
DecodeRest(lens) ==
    /\ result.status = "Ok" /\ result.rest # <<>> /\ result2 = NotDecoded
    /\ \E dl \in lens :
          /\ result2' = Packet_decode(result.rest, dl)
          /\ dest_id_len' = Append(dest_id_len, dl)
    /\ UNCHANGED <<stage, hdr, buf, header_len, sent, dgram, wire, result>>
    /\ UNCHANGED pnvars

OtherVersions == {Zero(4), <<1, 0, 0, 0>>, <<10, 0, 0, 255>>}

\* single packets with ids of the test lengths, and what the wire does to them
NextPacket ==
    \/ Encode(LongHeaders(TestLens, {INITIAL}, HeaderNumbers)
                \cup ShortHeaders(TestLens, ShortNumbers)
                \cup NegotiateHeaders(TestLens, {HANDSHAKE}), 1)
    \/ AppendPayload(Payloads)
    \/ SetPayloadLength
    \/ SealPayload
    \/ Send(1)
    \/ Cut(MAX_CID_SIZE * 2 + 16)
    \/ SetVersion(OtherVersions)
    \/ Reframe({1, 4, 8})
    \/ Decode(TestLens)
    \/ DecodeRest(TestLens)
    \/ Reset

Spec == Init /\ [][NextPacket]_vars

\* headers with ids of every length, encoded and decoded
NextCid ==
    \/ Encode(LongHeaders(AllLens, {INITIAL}, HeaderNumbers)
                \cup NegotiateHeaders(AllLens, {RETRY}), 1)
    \/ Abandon
    \/ Send(1)
    \/ Decode({0})
    \/ Reset

SpecCid == Init /\ [][NextCid]_vars

\* two packets coalesced into one datagram
NextCoalesce ==
    \/ Encode(LongHeaders({0, 4}, {INITIAL}, HeaderNumbers)
                \cup ShortHeaders({0, 4}, ShortNumbers)
                \cup NegotiateHeaders({0, 4}, {HANDSHAKE}), 2)
    \/ AppendPayload(SmallPayloads)
    \/ SetPayloadLength
    \/ SealPayload
    \/ Send(2)
    \/ Reframe({1, 4, 8})
    \/ Decode({0, 4})
    \/ DecodeRest({0, 4})
    \/ Reset

SpecCoalesce == Init /\ [][NextCoalesce]_vars

NextNumber ==
    \/ New(AckedSamples, GapSamples)
    \/ NewUnacked(GapSamples)
    \/ NewBelow(AckedSamples)
    \/ Receive(TruncatedSamples, PrevSamples)
    \/ Expand

SpecNumber == Init /\ [][NextNumber]_vars

----------------------------------------------------------------------------
(* Properties of the packet number codec.                                  *)

\* the value n reconstructs from its truncation to the width of pn
Reconstructs(pn, n, prev) ==
    LET e == PacketNumber_expand(pn, prev, FALSE)
    IN  ~e.panic /\ e.v = n

NarrowerThan(pn) ==
    CASE pn.tag = "U8" -> {}
      [] pn.tag = "U16" -> {1}
      [] pn.tag = "U32" -> {1, 2}

AsWidth(n, w) ==
    CASE w = 1 -> U8(Truncate(n, 1))
      [] w = 2 -> U16(Truncate(n, 2))
      [] w = 4 -> U32(Truncate(n, 4))

\* C1: for n >= largest_acked on which PacketNumber::new returns,
\* new(n, largest_acked).expand(largest_acked) = n.
C1_RoundTrip ==
    (pn_op = "expanded" /\ pn_n # NoNumber /\ Le(pn_acked, pn_n))
        => (~pn_out.panic /\ pn_out.v = pn_n)

\* C7: the width PacketNumber::new chooses reconstructs n, and no strictly
\* narrower width does (largest_acked = 0 included).
C7_NarrowestWidth ==
    (pn_op = "new" /\ pn_enc # Panicked /\ Le(pn_acked, pn_n))
        => /\ Reconstructs(pn_enc, pn_n, pn_acked)
           /\ \A w \in NarrowerThan(pn_enc) :
                 ~Reconstructs(AsWidth(pn_n, w), pn_n, pn_acked)

\* C8: expand returns the member r of x's residue class modulo d = 2^w that
\* is nearest to t = prev + 1: r mod d = x; if t > d/2 then
\* t - d/2 < r <= t + d/2 and t + d/2 - x does not underflow; if t <= d/2
\* then r = x.  (Stated over 9 limbs, where nothing wraps.)
C8_ExpandNearest ==
    pn_op = "expanded" =>
        LET w == Bits(pn_enc) \div 8
            half == Pow2(Bits(pn_enc) - 1, 9)
            t == AddC(pn_acked, Nat64(1), 0)
            x == Widen(pn_enc.x, 9)
            r == Widen(pn_out.v, 9)
            hi == WrappingAdd(t, half)
        IN  /\ ~pn_out.panic
            /\ Truncate(pn_out.v, w) = pn_enc.x
            /\ Lt(half, t) =>
                  /\ Lt(t, WrappingAdd(r, half))
                  /\ Le(r, hi)
                  /\ Le(x, hi)
            /\ Le(t, half) => r = x

\* C8 witness: an expansion that had to add a multiple of d to x
C8_Witness ==
    /\ pn_op = "expanded"
    /\ pn_enc.tag = "U16"
    /\ ~pn_out.panic
    /\ pn_out.v # Widen(pn_enc.x, 8)
    /\ Lt(Pow2(15, 8), pn_acked)

----------------------------------------------------------------------------
(* Properties of the header codec and of Packet::decode.                   *)

\* the datagram is one packet, as built, and Packet::decode ran on it with
\* the dest_id_len of its id if it has a short header
DecodedAsSent ==
    /\ Len(sent) = 1
    /\ wire = IntactWire
    /\ result # NotDecoded
    /\ sent[1].hdr.kind = "Short" => dest_id_len[1] = Len(sent[1].hdr.destination_id)

\* C2: Packet::decode of the bytes Header::encode produced succeeds with the
\* same header (variant, ty, ids, packet number and width, key_phase) and
\* header_data equal to all the encoded bytes.
C2_HeaderRoundTrip ==
    (DecodedAsSent /\ sent[1].built = "encoded")
        => /\ result.status = "Ok"
           /\ result.header = sent[1].hdr
           /\ result.header_data = sent[1].bytes

\* the sealed packet p carries its sealed length in its length field and
\* decodes to its header, its sealed bytes and nothing else
LongPacketParses(p, r) ==
    LET hl == p.header_len
        sealed_len == Len(p.bytes) - hl
    IN  /\ p.bytes[hl - 5] * 256 + p.bytes[hl - 4] = sealed_len + 16384
        /\ r.status = "Ok"
        /\ r.header = p.hdr
        /\ r.header_data = SubSeq(p.bytes, 1, hl)
        /\ r.payload = SubSeq(p.bytes, hl + 1, Len(p.bytes))
        /\ Len(r.payload) = sealed_len
        /\ r.rest = <<>>

\* C3 as stated: encode, append the payload, seal it, then
\* set_payload_length: the length field holds sealed_len | 0x4000 and
\* Packet::decode returns the header, the sealed bytes and no remainder.
C3_SealThenPatch ==
    (DecodedAsSent /\ sent[1].built = "sealed_patched")
        => LongPacketParses(sent[1], result)

\* C3 as amended: the same with set_payload_length called before the
\* sealer appends its tag.
C3_PatchThenSeal ==
    (DecodedAsSent /\ sent[1].built = "patched_sealed")
        => LongPacketParses(sent[1], result)

C3_Witness ==
    /\ DecodedAsSent
    /\ sent[1].built = "patched_sealed"
    /\ Len(sent[1].bytes) - sent[1].header_len > 255
    /\ Len(sent[1].hdr.source_id) = 18
    /\ result.status = "Ok"

\* a packet a sender would put in a datagram
ValidPacket(p) ==
    CASE p.hdr.kind = "Long" -> p.built = "patched_sealed"
      [] p.hdr.kind = "Short" -> p.built \in {"filled", "sealed"}
      [] p.hdr.kind = "VersionNegotiate" -> p.built = "filled"

\* the decode result r is the packet p
IsPacket(r, p) ==
    /\ r.status = "Ok"
    /\ r.header = p.hdr
    /\ r.header_data \o r.payload = p.bytes
    /\ Len(r.header_data) = p.header_len

\* two valid packets were coalesced and decoded in turn, each short header
\* with the dest_id_len of its id
CoalescedPair ==
    /\ Len(sent) = 2
    /\ wire = IntactWire
    /\ ValidPacket(sent[1]) /\ ValidPacket(sent[2])
    /\ result # NotDecoded
    /\ sent[1].hdr.kind = "Short" => dest_id_len[1] = Len(sent[1].hdr.destination_id)
    /\ (result2 # NotDecoded /\ sent[2].hdr.kind = "Short")
          => dest_id_len[2] = Len(sent[2].hdr.destination_id)

CoalescedParses ==
    /\ IsPacket(result, sent[1])
    /\ result.rest # <<>>
    /\ result2 # NotDecoded => (IsPacket(result2, sent[2]) /\ result2.rest = <<>>)

\* C4 as stated: for two valid packets of any variants, the first decode
\* returns P1 and a nonempty remainder, the second P2 and an empty one.
C4_CoalesceAny == CoalescedPair => CoalescedParses

\* C4 as amended: the same when P1 has a long header.
C4_CoalesceAfterLong ==
    (CoalescedPair /\ sent[1].hdr.kind = "Long") => CoalescedParses

C4_Witness ==
    /\ CoalescedPair
    /\ sent[1].hdr.kind = "Long"
    /\ sent[2].hdr.kind = "Short"
    /\ Len(sent[2].hdr.destination_id) = 4
    /\ result2.status = "Ok"
    /\ result2.payload # <<>>

\* C5: a strict prefix of an encoded header (the empty buffer included) is
\* rejected with InvalidHeader.
C5_TruncatedRejected ==
    (/\ Len(sent) = 1
     /\ sent[1].built = "encoded"
     /\ wire = [IntactWire EXCEPT !.truncated = TRUE]
     /\ result # NotDecoded
     /\ sent[1].hdr.kind = "Short" => dest_id_len[1] = Len(sent[1].hdr.destination_id))
        => result.status = "InvalidHeader"

\* a long header is on the wire with all the id bytes it declares
LongWithIds ==
    /\ Len(sent) = 1
    /\ sent[1].hdr.kind \in {"Long", "VersionNegotiate"}
    /\ result # NotDecoded
    /\ Len(dgram) >= 6 + Len(sent[1].hdr.destination_id) + Len(sent[1].hdr.source_id)

\* C6: with the id bytes present, version 0 gives VersionNegotiate with the
\* wire ids, header_len ending after the source id and all the remaining
\* bytes as payload; a version that is neither 0 nor VERSION gives
\* UnsupportedVersion with the wire ids, whatever follows the ids.
C6_VersionDispatch ==
    LongWithIds =>
        LET h == sent[1].hdr
            ids == 6 + Len(h.destination_id) + Len(h.source_id)
            version == SubSeq(dgram, 2, 5)
        IN  /\ version = <<0, 0, 0, 0>> =>
                  /\ result.status = "Ok"
                  /\ result.header = VersionNegotiate(h.ty, h.source_id, h.destination_id)
                  /\ result.header_data = SubSeq(dgram, 1, ids)
                  /\ result.payload = SubSeq(dgram, ids + 1, Len(dgram))
                  /\ result.rest = <<>>
            /\ (version # <<0, 0, 0, 0>> /\ version # <<255, 0, 0, 11>>) =>
                  result = UnsupportedVersion(h.source_id, h.destination_id)

C6_Witness ==
    /\ LongWithIds
    /\ wire.reversioned /\ wire.truncated
    /\ sent[1].hdr.kind = "Long"
    /\ SubSeq(dgram, 2, 5) = <<255, 0, 0, 10>>
    /\ result.status = "UnsupportedVersion"
    /\ Len(result.source) = 4 /\ Len(result.destination) = 18

\* the value and the end of the variable-length integer that starts after
\* pos bytes of d
FieldSize(d, pos) == 2 ^ (d[pos + 1] \div 64)
RECURSIVE BigEndian(_)
BigEndian(b) == IF b = <<>> THEN 0 ELSE BigEndian(SubSeq(b, 1, Len(b) - 1)) * 256 + b[Len(b)]
FieldValue(d, pos) ==
    BigEndian(<<d[pos + 1] % 64>> \o SubSeq(d, pos + 2, pos + FieldSize(d, pos)))

\* decode split its input d into header_data, payload and the remainder
Partitions(d, r) ==
    r.status = "Ok" =>
        /\ r.header_data \o r.payload \o r.rest = d
        /\ r.header.kind \in {"Short", "VersionNegotiate"} => r.rest = <<>>
        /\ r.header.kind = "Long" =>
              LET pos == 6 + Len(r.header.destination_id) + Len(r.header.source_id)
              IN  /\ Len(r.payload) = FieldValue(d, pos)
                  /\ Len(r.header_data) = pos + FieldSize(d, pos) + 4

\* C9: whenever Packet::decode returns Ok, header_data ++ payload ++ rest is
\* its input; rest is empty for Short and VersionNegotiate; for Long the
\* payload has the length read from the length field.
C9_DecodePartitions ==
    /\ Partitions(dgram, result)
    /\ Partitions(result.rest, result2)

C9_Witness ==
    /\ wire.reframed
    /\ result.status = "Ok"
    /\ result.header.kind = "Long"
    /\ Len(result.header_data) = 6 + 8 + 8 + 4
    /\ Len(result.payload) = 17
    /\ result.rest # <<>>
    /\ result2.status = "Ok"

\* the two length codes on the wire are those of the ids of h
WireCodes(bytes, h) ==
    LET code(l) == IF l = 0 THEN 0 ELSE l - 3
    IN  bytes[6] = code(Len(h.destination_id)) * 16 + code(Len(h.source_id))

LengthsRoundTrip ==
    /\ stage # "panicked"
    /\ (Len(sent) = 1 /\ sent[1].built = "encoded") => WireCodes(sent[1].bytes, sent[1].hdr)
    /\ (DecodedAsSent /\ sent[1].built = "encoded") =>
          /\ result.status = "Ok"
          /\ result.header.destination_id = sent[1].hdr.destination_id
          /\ result.header.source_id = sent[1].hdr.source_id

Representable(l) == l = 0 \/ l >= 4

\* C10 as stated: for ids of any length 0..MAX_CID_SIZE, Header::encode
\* writes the code 0 for 0 and L - 3 otherwise and Packet::decode maps it
\* back to L: the decoded ids are the encoded ones.
C10_AnyLength == LengthsRoundTrip

\* C10 as amended: the same for ids of length 0 or 4..MAX_CID_SIZE.
C10_WireLengths ==
    LET h == IF stage = "idle" /\ sent # <<>> THEN sent[1].hdr ELSE hdr
    IN  (Representable(Len(h.destination_id)) /\ Representable(Len(h.source_id)))
            => LengthsRoundTrip

C10_Witness ==
    /\ DecodedAsSent
    /\ sent[1].hdr.kind = "Long"
    /\ Len(sent[1].hdr.destination_id) = 18
    /\ Len(sent[1].hdr.source_id) = 5
    /\ result.status = "Ok"
    /\ Len(result.header.destination_id) = 18
    /\ Len(result.header.source_id) = 5

====
